---- MODULE Spec2Model ----
(***************************************************************************)
(* Lifecycle coordinator of package app (src/app/app.go): Register, Start, *)
(* Stop, cleanup and exit over the package-level state components, ctx,    *)
(* shutdownCh and closingCh.  One goroutine ("main") registers components  *)
(* and then blocks in Start; other goroutines call Stop; the environment   *)
(* delivers termination signals into shutdownCh.                           *)
(***************************************************************************)
EXTENDS Integers, Sequences, FiniteSets, TLC

\* ---------------------------------------------------------------- bounds
NComp == 2          \* distinct component values
MaxReg == 2         \* Register calls made by main before Start
NStoppers == 2      \* goroutines that call Stop
MaxStopCalls == 1   \* Stop calls made by each of them
MaxSignals == 2     \* termination signals sent by the environment
NObservers == 1     \* goroutines that wait on Context().Done()
MaxCloseCalls == 2  \* Close calls made on a server
MaxRouterCalls == 2 \* Router calls made on a chix server
MaxOpts == 3        \* options in one NewServer call
MaxNewServer == 2   \* NewServer calls on one Config
MaxOverwrite == 2   \* signals in the overwrite list of a shutdown helper
MaxShSignals == 2   \* signals the process receives while a helper is used

Comps == 1..NComp
Nil == 0
Main == "main"
Stoppers == {"s" \o ToString(i) : i \in 1..NStoppers}
Registrar == "r1"   \* a goroutine that calls Register while main is in Start
Threads == {Main, Registrar} \cup Stoppers
Observers == 1..NObservers

\* ---------------------------------------------------------------- values
NoCause == "none"
StopCause == "app stopped"
SignalCause == "app closing triggered by system call"

NoFault == "none"
NilErr == "given component is nil"
CloseOfClosed == "close of closed channel"
StartErr(c) == "error from component " \o ToString(c)
NoErr == "nil"
GenericErr == "startup failed"

ChanCap == 1        \* make(chan os.Signal, 1)

VARIABLES
  components,   \* var components []Component
  cause,        \* ctx: NoCause while not cancelled, else context.Cause(ctx)
  shutdownCh,   \* number of signals buffered in shutdownCh
  closed,       \* closingCh has been closed
  fault,        \* the value of an unrecovered panic, NoFault while running
  notified,     \* signal.Notify(shutdownCh, ...) has been called
  pc,           \* position of each goroutine
  regC,         \* Register: its argument c
  exitErr,      \* exit: its argument err
  clSnap,       \* cleanup: the slice the range loop iterates
  clIdx,        \* cleanup: position of the range loop
  clRet,        \* cleanup: where its caller continues
  wokenBy,      \* Start: the select case taken
  stopBranch,   \* Stop: the select case taken by the last call
  stopCalls,    \* Stop calls made so far by each goroutine
  sigSent,      \* signals sent so far by the environment
  \* history
  regLog,       \* components appended to components, in order
  startLog,     \* c.Start() calls, in order
  stopLog,      \* c.Stop() calls, in order
  stopRets,     \* c.Stop() calls that have returned
  stopErrAt,    \* positions of stopLog whose call returned an error
  passes,       \* cleanup passes begun
  sigDelivered, \* a signal has been put into shutdownCh
  stopNoSig,    \* a Stop cancelled while Start was waiting and no signal
                \*   had been delivered
  stoppedBefore,\* a Stop had cancelled when Start called cancel
  earlyRet,     \* <<t, k>>: t's Stop returned on the timer before closingCh
                \*   was closed, while Start's cleanup was under way and
                \*   the k-th c.Stop() call was in progress (0: none was)
  startFails,   \* positions of startLog whose call returned an error
  obs,          \* goroutines blocked on <-Context().Done()
  srv,          \* a chix.Server or httpx.Server and the goroutines using it
  mw,           \* a chix.Config, the chain of the last server made from it
  sapp,         \* an App made by New() and the goroutines using it
  regMax,       \* number of Register calls the program makes
  ctxDone,      \* ctx.Done() is closed, ctx.Err() is not nil
  sh            \* one call of a helper of package shutdown

appVars == <<components, cause, shutdownCh, closed, fault, notified, pc, regC,
          exitErr, clSnap, clIdx, clRet, wokenBy, stopBranch, stopCalls,
          sigSent, regLog, startLog, stopLog, stopRets, stopErrAt, passes,
          sigDelivered, stopNoSig, stoppedBefore, earlyRet, startFails, obs>>

vars == <<appVars, srv, mw, sapp, regMax, ctxDone, sh>>

shared == <<components, cause, shutdownCh, closed, fault, notified>>
locals == <<regC, exitErr, clSnap, clIdx, clRet, wokenBy, stopBranch,
            stopCalls>>
hist == <<regLog, startLog, stopLog, stopRets, stopErrAt, passes,
          sigDelivered, stopNoSig, stoppedBefore, earlyRet>>

\* ---------------------------------------------------------------- state
\* init -> reset: fresh context, empty channels, no component.
AppInit ==
  /\ components = <<>>
  /\ cause = NoCause
  /\ ctxDone = FALSE
  /\ shutdownCh = 0
  /\ closed = FALSE
  /\ fault = NoFault
  /\ notified = FALSE
  /\ pc = [t \in Threads |-> IF t \in {Main, Registrar} THEN "reg" ELSE "idle"]
  /\ regC = [t \in Threads |-> Nil]
  /\ exitErr = [t \in Threads |-> NoErr]
  /\ clSnap = [t \in Threads |-> <<>>]
  /\ clIdx = [t \in Threads |-> 0]
  /\ clRet = [t \in Threads |-> "none"]
  /\ wokenBy = [t \in Threads |-> "none"]
  /\ stopBranch = [t \in Threads |-> "none"]
  /\ stopCalls = [t \in Threads |-> 0]
  /\ sigSent = 0
  /\ regLog = <<>>
  /\ startLog = <<>>
  /\ stopLog = <<>>
  /\ stopRets = 0
  /\ stopErrAt = {}
  /\ passes = 0
  /\ sigDelivered = FALSE
  /\ stopNoSig = FALSE
  /\ stoppedBefore = FALSE
  /\ earlyRet = {}
  /\ startFails = {}
  /\ obs = [o \in Observers |-> "away"]

\* An unrecovered panic ends the process: no goroutine takes another step.
Alive == fault = NoFault

\* context.CancelCauseFunc: the first call closes Done() and sets the cause,
\* later calls are no-ops.
CancelOverwrites(old, new) == new
Cancel(old, new) == IF old = NoCause THEN new ELSE old

Cancelled == ctxDone

\* ------------------------------------------------------------- cleanup
\* for _, c := range components: the i-th iteration of the loop.
RangeReversed(snap, i) == snap[Len(snap) + 1 - i]
RangeAt(snap, i) == snap[i]

\* the loop goes on to the next element whether or not c.Stop() failed.
BreakOnErr(i, n, failed) == IF failed THEN n + 1 ELSE i + 1
AfterStop(i, n, failed) == i + 1

\* components = nil
KeepComponents(cs) == cs
Cleared(cs) == <<>>

\* cleanup(): the range expression is evaluated once.
CleanupEnter(t) ==
  /\ Alive /\ pc[t] = "cl_enter"
  /\ clSnap' = [clSnap EXCEPT ![t] = components]
  /\ clIdx' = [clIdx EXCEPT ![t] = 1]
  /\ passes' = passes + 1
  /\ pc' = [pc EXCEPT ![t] = "cl_loop"]
  /\ UNCHANGED <<shared, regC, exitErr, clRet, wokenBy, stopBranch,
                 stopCalls, sigSent, regLog, startLog, stopLog, stopRets,
                 stopErrAt, sigDelivered, stopNoSig, stoppedBefore,
                 earlyRet>>
  /\ UNCHANGED <<startFails, obs>>
  /\ UNCHANGED <<srv, mw, sapp, regMax, ctxDone, sh>>

\* c.Stop() is called.
CleanupStopInvokeAsync(t) ==
  /\ Alive /\ pc[t] = "cl_loop"
  /\ clIdx[t] <= Len(clSnap[t])
  /\ stopLog' = Append(stopLog, RangeAt(clSnap[t], clIdx[t]))
  /\ clIdx' = [clIdx EXCEPT ![t] = @ + 1]
  /\ UNCHANGED <<shared, pc, regC, exitErr, clSnap, clRet, wokenBy,
                 stopBranch, stopCalls, sigSent, regLog, startLog, stopRets,
                 stopErrAt, passes, sigDelivered, stopNoSig, stoppedBefore,
                 earlyRet>>
  /\ UNCHANGED <<startFails, obs>>
  /\ UNCHANGED <<srv, mw, sapp, regMax, ctxDone, sh>>

CleanupStopInvoke(t) ==
  /\ Alive /\ pc[t] = "cl_loop"
  /\ clIdx[t] <= Len(clSnap[t])
  /\ stopLog' = Append(stopLog, RangeAt(clSnap[t], clIdx[t]))
  /\ pc' = [pc EXCEPT ![t] = "cl_stopping"]
  /\ UNCHANGED <<shared, locals, sigSent, regLog, startLog, stopRets,
                 stopErrAt, passes, sigDelivered, stopNoSig, stoppedBefore,
                 earlyRet>>
  /\ UNCHANGED <<startFails, obs>>
  /\ UNCHANGED <<srv, mw, sapp, regMax, ctxDone, sh>>

\* c.Stop() returns, with or without an error; an error is only logged.
CleanupStopReturn(t, failed) ==
  /\ Alive /\ pc[t] = "cl_stopping"
  /\ stopRets' = stopRets + 1
  /\ stopErrAt' = IF failed THEN stopErrAt \cup {Len(stopLog)} ELSE stopErrAt
  /\ clIdx' = [clIdx EXCEPT ![t] = AfterStop(clIdx[t], Len(clSnap[t]), failed)]
  /\ pc' = [pc EXCEPT ![t] = "cl_loop"]
  /\ UNCHANGED <<shared, regC, exitErr, clSnap, clRet, wokenBy, stopBranch,
                 stopCalls, sigSent, regLog, startLog, stopLog, passes,
                 sigDelivered, stopNoSig, stoppedBefore, earlyRet>>
  /\ UNCHANGED <<startFails, obs>>
  /\ UNCHANGED <<srv, mw, sapp, regMax, ctxDone, sh>>

\* end of the loop: components = nil, then back to the caller.
CleanupClear(t) ==
  /\ Alive /\ pc[t] = "cl_loop"
  /\ clIdx[t] > Len(clSnap[t])
  /\ components' = Cleared(components)
  /\ pc' = [pc EXCEPT ![t] = clRet[t]]
  /\ UNCHANGED <<cause, shutdownCh, closed, fault, notified, locals,
                 sigSent, hist>>
  /\ UNCHANGED <<startFails, obs>>
  /\ UNCHANGED <<srv, mw, sapp, regMax, ctxDone, sh>>

\* exit(err): cleanup() has returned, panic(err).
PanicGeneric(err) == GenericErr
PanicValue(err) == err

ExitPanicCancels(t) ==
  /\ Alive /\ pc[t] = "exit_panic"
  /\ fault' = PanicValue(exitErr[t])
  /\ cause' = Cancel(cause, "app stopped")
  /\ ctxDone' = TRUE
  /\ pc' = [pc EXCEPT ![t] = "panicked"]
  /\ UNCHANGED <<components, shutdownCh, closed, notified, locals,
                 sigSent, hist>>
  /\ UNCHANGED <<startFails, obs>>
  /\ UNCHANGED <<srv, mw, sapp, regMax, sh>>

ExitPanic(t) ==
  /\ Alive /\ pc[t] = "exit_panic"
  /\ fault' = PanicValue(exitErr[t])
  /\ pc' = [pc EXCEPT ![t] = "panicked"]
  /\ UNCHANGED <<components, cause, shutdownCh, closed, notified, locals,
                 sigSent, hist>>
  /\ UNCHANGED <<startFails, obs>>
  /\ UNCHANGED <<srv, mw, sapp, regMax, ctxDone, sh>>

\* ------------------------------------------------------------ Register
\* Register(nil): exit(fmt.Errorf("given component is nil")).
RegisterNilNoCleanup(t) ==
  /\ Alive /\ pc[t] = "reg"
  /\ Len(startLog) < regMax
  /\ regC' = [regC EXCEPT ![t] = Nil]
  /\ exitErr' = [exitErr EXCEPT ![t] = NilErr]
  /\ pc' = [pc EXCEPT ![t] = "exit_panic"]
  /\ UNCHANGED <<shared, clSnap, clIdx, clRet, wokenBy, stopBranch,
                 stopCalls, sigSent, hist>>
  /\ UNCHANGED <<startFails, obs>>
  /\ UNCHANGED <<srv, mw, sapp, regMax, ctxDone, sh>>

RegisterNil(t) ==
  /\ Alive /\ pc[t] = "reg"
  /\ Len(startLog) < regMax
  /\ regC' = [regC EXCEPT ![t] = Nil]
  /\ exitErr' = [exitErr EXCEPT ![t] = NilErr]
  /\ clRet' = [clRet EXCEPT ![t] = "exit_panic"]
  /\ pc' = [pc EXCEPT ![t] = "cl_enter"]
  /\ UNCHANGED <<shared, clSnap, clIdx, wokenBy, stopBranch, stopCalls,
                 sigSent, hist>>
  /\ UNCHANGED <<startFails, obs>>
  /\ UNCHANGED <<srv, mw, sapp, regMax, ctxDone, sh>>

\* Register(c), c # nil: err := c.Start(); exit(err) when it failed.
RegisterStartIgnoresErr(t, c, ok) ==
  /\ Alive /\ pc[t] = "reg"
  /\ Len(startLog) < regMax
  /\ regC' = [regC EXCEPT ![t] = c]
  /\ startLog' = Append(startLog, c)
  /\ pc' = [pc EXCEPT ![t] = "reg_append"]
  /\ startFails' = IF ok THEN startFails
                   ELSE startFails \cup {Len(startLog) + 1}
  /\ UNCHANGED <<shared, exitErr, clSnap, clIdx, clRet, wokenBy, stopBranch,
                 stopCalls, sigSent, regLog, stopLog, stopRets, stopErrAt,
                 passes, sigDelivered, stopNoSig, stoppedBefore, earlyRet,
                 obs>>
  /\ UNCHANGED <<srv, mw, sapp, regMax, ctxDone, sh>>

RegisterStartAppendsFailed(t, c, ok) ==
  /\ Alive /\ pc[t] = "reg"
  /\ Len(startLog) < regMax
  /\ regC' = [regC EXCEPT ![t] = c]
  /\ startLog' = Append(startLog, c)
  /\ IF ok
       THEN /\ pc' = [pc EXCEPT ![t] = "reg_append"]
            /\ UNCHANGED <<exitErr, clRet, components>>
       ELSE /\ exitErr' = [exitErr EXCEPT ![t] = StartErr(c)]
            /\ components' = Append(components, c)
            /\ clRet' = [clRet EXCEPT ![t] = "exit_panic"]
            /\ pc' = [pc EXCEPT ![t] = "cl_enter"]
  /\ UNCHANGED <<cause, shutdownCh, closed, fault, notified, clSnap, clIdx,
                 wokenBy, stopBranch, stopCalls, sigSent, regLog, stopLog,
                 stopRets, stopErrAt, passes, sigDelivered, stopNoSig,
                 stoppedBefore, earlyRet>>
  /\ startFails' = IF ok THEN startFails
                   ELSE startFails \cup {Len(startLog) + 1}
  /\ UNCHANGED obs
  /\ UNCHANGED <<srv, mw, sapp, regMax, ctxDone, sh>>

RegisterStart(t, c, ok) ==
  /\ Alive /\ pc[t] = "reg"
  /\ Len(startLog) < regMax
  /\ regC' = [regC EXCEPT ![t] = c]
  /\ startLog' = Append(startLog, c)
  /\ IF ok
       THEN /\ pc' = [pc EXCEPT ![t] = "reg_append"]
            /\ UNCHANGED <<exitErr, clRet>>
       ELSE /\ exitErr' = [exitErr EXCEPT ![t] = StartErr(c)]
            /\ clRet' = [clRet EXCEPT ![t] = "exit_panic"]
            /\ pc' = [pc EXCEPT ![t] = "cl_enter"]
  /\ UNCHANGED <<shared, clSnap, clIdx, wokenBy, stopBranch, stopCalls,
                 sigSent, regLog, stopLog, stopRets, stopErrAt, passes,
                 sigDelivered, stopNoSig, stoppedBefore, earlyRet>>
  /\ startFails' = IF ok THEN startFails
                   ELSE startFails \cup {Len(startLog) + 1}
  /\ UNCHANGED obs
  /\ UNCHANGED <<srv, mw, sapp, regMax, ctxDone, sh>>

\* components = append(components, c)
RegisterAppendDedup(t) ==
  /\ Alive /\ pc[t] = "reg_append"
  /\ components' = IF \E i \in DOMAIN components : components[i] = regC[t]
                     THEN components
                     ELSE Append(components, regC[t])
  /\ regLog' = Append(regLog, regC[t])
  /\ pc' = [pc EXCEPT ![t] = "reg"]
  /\ UNCHANGED <<cause, shutdownCh, closed, fault, notified, locals, sigSent,
                 startLog, stopLog, stopRets, stopErrAt, passes,
                 sigDelivered, stopNoSig, stoppedBefore, earlyRet>>
  /\ UNCHANGED <<startFails, obs>>
  /\ UNCHANGED <<srv, mw, sapp, regMax, ctxDone, sh>>

RegisterAppend(t) ==
  /\ Alive /\ pc[t] = "reg_append"
  /\ components' = Append(components, regC[t])
  /\ regLog' = Append(regLog, regC[t])
  /\ pc' = [pc EXCEPT ![t] = "reg"]
  /\ UNCHANGED <<cause, shutdownCh, closed, fault, notified, locals, sigSent,
                 startLog, stopLog, stopRets, stopErrAt, passes,
                 sigDelivered, stopNoSig, stoppedBefore, earlyRet>>
  /\ UNCHANGED <<startFails, obs>>
  /\ UNCHANGED <<srv, mw, sapp, regMax, ctxDone, sh>>

\* --------------------------------------------------------------- Start
\* signal.Notify(shutdownCh, SIGHUP, SIGINT, SIGTERM, SIGQUIT)
StartNotify(t) ==
  /\ Alive /\ pc[t] = "reg"
  /\ notified' = TRUE
  /\ pc' = [pc EXCEPT ![t] = "start_wait"]
  /\ UNCHANGED <<components, cause, shutdownCh, closed, fault, locals,
                 sigSent, hist>>
  /\ UNCHANGED <<startFails, obs>>
  /\ UNCHANGED <<srv, mw, sapp, regMax, ctxDone, sh>>

\* select: case <-shutdownCh
StartSelectSignalOff(t) ==
  /\ Alive /\ pc[t] = "start_wait"
  /\ shutdownCh > ChanCap
  /\ shutdownCh' = shutdownCh - 1
  /\ wokenBy' = [wokenBy EXCEPT ![t] = "signal"]
  /\ pc' = [pc EXCEPT ![t] = "start_cancel"]
  /\ UNCHANGED <<components, cause, closed, fault, notified, regC, exitErr,
                 clSnap, clIdx, clRet, stopBranch, stopCalls, sigSent, hist>>
  /\ UNCHANGED <<startFails, obs>>
  /\ UNCHANGED <<srv, mw, sapp, regMax, ctxDone, sh>>

StartSelectSignal(t) ==
  /\ Alive /\ pc[t] = "start_wait"
  /\ shutdownCh > 0
  /\ shutdownCh' = shutdownCh - 1
  /\ wokenBy' = [wokenBy EXCEPT ![t] = "signal"]
  /\ pc' = [pc EXCEPT ![t] = "start_cancel"]
  /\ UNCHANGED <<components, cause, closed, fault, notified, regC, exitErr,
                 clSnap, clIdx, clRet, stopBranch, stopCalls, sigSent, hist>>
  /\ UNCHANGED <<startFails, obs>>
  /\ UNCHANGED <<srv, mw, sapp, regMax, ctxDone, sh>>

\* cancel(fmt.Errorf("app closing triggered by system call")); the deferred
\* function runs next.
StartNoCancel(t) ==
  /\ Alive /\ pc[t] = "start_cancel"
  /\ stoppedBefore' = (\E s \in Stoppers : stopCalls[s] > 0)
  /\ clRet' = [clRet EXCEPT ![t] = "start_close"]
  /\ pc' = [pc EXCEPT ![t] = "cl_enter"]
  /\ UNCHANGED <<shared, regC, exitErr, clSnap, clIdx, wokenBy, stopBranch,
                 stopCalls, sigSent, regLog, startLog, stopLog, stopRets,
                 stopErrAt, passes, sigDelivered, stopNoSig, earlyRet,
                 startFails, obs>>
  /\ UNCHANGED <<srv, mw, sapp, regMax, ctxDone, sh>>

StartCancelPlain(t) ==
  /\ Alive /\ pc[t] = "start_cancel"
  /\ cause' = Cancel(cause, "context canceled")
  /\ ctxDone' = TRUE
  /\ stoppedBefore' = (\E s \in Stoppers : stopCalls[s] > 0)
  /\ clRet' = [clRet EXCEPT ![t] = "start_close"]
  /\ pc' = [pc EXCEPT ![t] = "cl_enter"]
  /\ UNCHANGED <<components, shutdownCh, closed, fault, notified, regC,
                 exitErr, clSnap, clIdx, wokenBy, stopBranch, stopCalls,
                 sigSent, regLog, startLog, stopLog, stopRets, stopErrAt,
                 passes, sigDelivered, stopNoSig, earlyRet>>
  /\ UNCHANGED <<startFails, obs>>
  /\ UNCHANGED <<srv, mw, sapp, regMax, sh>>

StartCancel(t) ==
  /\ Alive /\ pc[t] = "start_cancel"
  /\ cause' = Cancel(cause, SignalCause)
  /\ ctxDone' = TRUE
  /\ stoppedBefore' = (\E s \in Stoppers : stopCalls[s] > 0)
  /\ clRet' = [clRet EXCEPT ![t] = "start_close"]
  /\ pc' = [pc EXCEPT ![t] = "cl_enter"]
  /\ UNCHANGED <<components, shutdownCh, closed, fault, notified, regC,
                 exitErr, clSnap, clIdx, wokenBy, stopBranch, stopCalls,
                 sigSent, regLog, startLog, stopLog, stopRets, stopErrAt,
                 passes, sigDelivered, stopNoSig, earlyRet>>
  /\ UNCHANGED <<startFails, obs>>
  /\ UNCHANGED <<srv, mw, sapp, regMax, sh>>

\* select: case <-ctx.Done(); the deferred function runs next.
StartSelectNoWait(t) ==
  /\ Alive /\ pc[t] = "start_wait"
  /\ wokenBy' = [wokenBy EXCEPT ![t] = "ctx"]
  /\ clRet' = [clRet EXCEPT ![t] = "start_close"]
  /\ pc' = [pc EXCEPT ![t] = "cl_enter"]
  /\ UNCHANGED <<shared, regC, exitErr, clSnap, clIdx, stopBranch,
                 stopCalls, sigSent, hist>>
  /\ UNCHANGED <<startFails, obs>>
  /\ UNCHANGED <<srv, mw, sapp, regMax, ctxDone, sh>>

StartSelectCtxClosesFirst(t) ==
  /\ Alive /\ pc[t] = "start_wait"
  /\ Cancelled
  /\ wokenBy' = [wokenBy EXCEPT ![t] = "ctx"]
  /\ closed' = TRUE
  /\ clRet' = [clRet EXCEPT ![t] = "start_done"]
  /\ pc' = [pc EXCEPT ![t] = "cl_enter"]
  /\ UNCHANGED <<components, cause, shutdownCh, fault, notified, regC,
                 exitErr, clSnap, clIdx, stopBranch, stopCalls, sigSent,
                 hist>>
  /\ UNCHANGED <<startFails, obs>>
  /\ UNCHANGED <<srv, mw, sapp, regMax, ctxDone, sh>>

StartSelectCtxNoCleanup(t) ==
  /\ Alive /\ pc[t] = "start_wait"
  /\ Cancelled
  /\ wokenBy' = [wokenBy EXCEPT ![t] = "ctx"]
  /\ pc' = [pc EXCEPT ![t] = "start_close"]
  /\ UNCHANGED <<shared, regC, exitErr, clSnap, clIdx, clRet, stopBranch,
                 stopCalls, sigSent, hist>>
  /\ UNCHANGED <<startFails, obs>>
  /\ UNCHANGED <<srv, mw, sapp, regMax, ctxDone, sh>>

StartSelectCtxNeedsSignal(t) ==
  /\ Alive /\ pc[t] = "start_wait"
  /\ Cancelled /\ sigDelivered
  /\ wokenBy' = [wokenBy EXCEPT ![t] = "ctx"]
  /\ clRet' = [clRet EXCEPT ![t] = "start_close"]
  /\ pc' = [pc EXCEPT ![t] = "cl_enter"]
  /\ UNCHANGED <<shared, regC, exitErr, clSnap, clIdx, stopBranch,
                 stopCalls, sigSent, hist>>
  /\ UNCHANGED <<startFails, obs>>
  /\ UNCHANGED <<srv, mw, sapp, regMax, ctxDone, sh>>

StartSelectCtx(t) ==
  /\ Alive /\ pc[t] = "start_wait"
  /\ Cancelled
  /\ wokenBy' = [wokenBy EXCEPT ![t] = "ctx"]
  /\ clRet' = [clRet EXCEPT ![t] = "start_close"]
  /\ pc' = [pc EXCEPT ![t] = "cl_enter"]
  /\ UNCHANGED <<shared, regC, exitErr, clSnap, clIdx, stopBranch,
                 stopCalls, sigSent, hist>>
  /\ UNCHANGED <<startFails, obs>>
  /\ UNCHANGED <<srv, mw, sapp, regMax, ctxDone, sh>>

\* deferred: close(closingCh) after cleanup(); closing a closed channel
\* panics.
StartClose(t) ==
  /\ Alive /\ pc[t] = "start_close"
  /\ IF closed
       THEN /\ fault' = CloseOfClosed
            /\ pc' = [pc EXCEPT ![t] = "panicked"]
            /\ UNCHANGED closed
       ELSE /\ closed' = TRUE
            /\ pc' = [pc EXCEPT ![t] = "start_done"]
            /\ UNCHANGED fault
  /\ UNCHANGED <<components, cause, shutdownCh, notified, locals, sigSent,
                 hist>>
  /\ UNCHANGED <<startFails, obs>>
  /\ UNCHANGED <<srv, mw, sapp, regMax, ctxDone, sh>>

\* ---------------------------------------------------------------- Stop
\* cancel(fmt.Errorf("app stopped"))
StopCancel(t) ==
  /\ Alive /\ pc[t] = "idle"
  /\ stopCalls[t] < MaxStopCalls
  /\ stopCalls' = [stopCalls EXCEPT ![t] = @ + 1]
  /\ cause' = Cancel(cause, StopCause)
  /\ ctxDone' = TRUE
  /\ stopNoSig' = (stopNoSig \/ (pc[Main] = "start_wait" /\ ~sigDelivered))
  /\ pc' = [pc EXCEPT ![t] = "stop_select"]
  /\ UNCHANGED <<components, shutdownCh, closed, fault, notified, regC,
                 exitErr, clSnap, clIdx, clRet, wokenBy, stopBranch, sigSent,
                 regLog, startLog, stopLog, stopRets, stopErrAt, passes,
                 sigDelivered, stoppedBefore, earlyRet>>
  /\ UNCHANGED <<startFails, obs>>
  /\ UNCHANGED <<srv, mw, sapp, regMax, sh>>

\* select entered with closingCh open: time.After(forcefullyTimeout) has
\* just created its timer, no case is ready and the goroutine blocks.
StopBlock(t) ==
  /\ Alive /\ pc[t] = "stop_select"
  /\ ~closed
  /\ pc' = [pc EXCEPT ![t] = "stop_wait"]
  /\ UNCHANGED <<shared, locals, sigSent, hist>>
  /\ UNCHANGED <<startFails, obs>>
  /\ UNCHANGED <<srv, mw, sapp, regMax, ctxDone, sh>>

\* select: case <-closingCh, on entry or after blocking; a closed channel
\* stays readable for every receiver.
StopCompleteConsumes(t) ==
  /\ Alive /\ pc[t] \in {"stop_select", "stop_wait"}
  /\ closed
  /\ closed' = FALSE
  /\ stopBranch' = [stopBranch EXCEPT ![t] = "complete"]
  /\ pc' = [pc EXCEPT ![t] = "idle"]
  /\ UNCHANGED <<components, cause, shutdownCh, fault, notified, regC,
                 exitErr, clSnap, clIdx, clRet, wokenBy, stopCalls, sigSent,
                 hist>>
  /\ UNCHANGED <<startFails, obs>>
  /\ UNCHANGED <<srv, mw, sapp, regMax, ctxDone, sh>>

StopComplete(t) ==
  /\ Alive /\ pc[t] \in {"stop_select", "stop_wait"}
  /\ closed
  /\ stopBranch' = [stopBranch EXCEPT ![t] = "complete"]
  /\ pc' = [pc EXCEPT ![t] = "idle"]
  /\ UNCHANGED <<shared, regC, exitErr, clSnap, clIdx, clRet, wokenBy,
                 stopCalls, sigSent, hist>>
  /\ UNCHANGED <<startFails, obs>>
  /\ UNCHANGED <<srv, mw, sapp, regMax, ctxDone, sh>>

\* Start has left its select and its deferred function has not finished.
InStartCleanup ==
  /\ pc[Main] \in {"cl_enter", "cl_loop", "cl_stopping", "start_close"}
  /\ clRet[Main] = "start_close"

\* the c.Stop() call Start's cleanup is waiting for, as a position of
\* stopLog; 0 when there is none.
InFlight == IF pc[Main] = "cl_stopping" THEN Len(stopLog) ELSE 0

EarlyRet(t) ==
  IF ~closed /\ InStartCleanup THEN earlyRet \cup {<<t, InFlight>>}
  ELSE earlyRet

\* select: case <-time.After(forcefullyTimeout); only a warning is logged.
\* The timer may fire at any moment once the goroutine is blocked.
StopTimeoutCleanup(t) ==
  /\ Alive /\ pc[t] = "stop_wait"
  /\ stopBranch' = [stopBranch EXCEPT ![t] = "timeout"]
  /\ earlyRet' = EarlyRet(t)
  /\ clRet' = [clRet EXCEPT ![t] = "idle"]
  /\ pc' = [pc EXCEPT ![t] = "cl_enter"]
  /\ UNCHANGED <<shared, regC, exitErr, clSnap, clIdx, wokenBy,
                 stopCalls, sigSent, regLog, startLog, stopLog, stopRets,
                 stopErrAt, passes, sigDelivered, stopNoSig, stoppedBefore>>
  /\ UNCHANGED <<startFails, obs>>
  /\ UNCHANGED <<srv, mw, sapp, regMax, ctxDone, sh>>

StopTimeoutClears(t) ==
  /\ Alive /\ pc[t] = "stop_wait"
  /\ stopBranch' = [stopBranch EXCEPT ![t] = "timeout"]
  /\ earlyRet' = EarlyRet(t)
  /\ components' = <<>>
  /\ pc' = [pc EXCEPT ![t] = "idle"]
  /\ UNCHANGED <<cause, shutdownCh, closed, fault, notified, regC, exitErr,
                 clSnap, clIdx, clRet, wokenBy, stopCalls, sigSent, regLog,
                 startLog, stopLog, stopRets, stopErrAt, passes,
                 sigDelivered, stopNoSig, stoppedBefore>>
  /\ UNCHANGED <<startFails, obs>>
  /\ UNCHANGED <<srv, mw, sapp, regMax, ctxDone, sh>>

StopTimeoutNeedsClosed(t) ==
  /\ Alive /\ pc[t] = "stop_wait"
  /\ closed
  /\ stopBranch' = [stopBranch EXCEPT ![t] = "timeout"]
  /\ earlyRet' = EarlyRet(t)
  /\ pc' = [pc EXCEPT ![t] = "idle"]
  /\ UNCHANGED <<shared, regC, exitErr, clSnap, clIdx, clRet, wokenBy,
                 stopCalls, sigSent, regLog, startLog, stopLog, stopRets,
                 stopErrAt, passes, sigDelivered, stopNoSig, stoppedBefore>>
  /\ UNCHANGED <<startFails, obs>>
  /\ UNCHANGED <<srv, mw, sapp, regMax, ctxDone, sh>>

StopTimeout(t) ==
  /\ Alive /\ pc[t] = "stop_wait"
  /\ stopBranch' = [stopBranch EXCEPT ![t] = "timeout"]
  /\ earlyRet' = EarlyRet(t)
  /\ pc' = [pc EXCEPT ![t] = "idle"]
  /\ UNCHANGED <<shared, regC, exitErr, clSnap, clIdx, clRet, wokenBy,
                 stopCalls, sigSent, regLog, startLog, stopLog, stopRets,
                 stopErrAt, passes, sigDelivered, stopNoSig, stoppedBefore>>
  /\ UNCHANGED <<startFails, obs>>
  /\ UNCHANGED <<srv, mw, sapp, regMax, ctxDone, sh>>

\* ------------------------------------------------------------- signals
\* os/signal delivers with a non-blocking send: a signal that finds the
\* buffer full is dropped.
SignalQueued ==
  /\ Alive /\ notified
  /\ sigSent < MaxSignals
  /\ sigSent' = sigSent + 1
  /\ shutdownCh' = shutdownCh + 1
  /\ sigDelivered' = TRUE
  /\ UNCHANGED <<components, cause, closed, fault, notified, pc, locals,
                 regLog, startLog, stopLog, stopRets, stopErrAt, passes,
                 stopNoSig, stoppedBefore, earlyRet>>
  /\ UNCHANGED <<startFails, obs>>
  /\ UNCHANGED <<srv, mw, sapp, regMax, ctxDone, sh>>

Signal ==
  /\ Alive /\ notified
  /\ sigSent < MaxSignals
  /\ sigSent' = sigSent + 1
  /\ IF shutdownCh < ChanCap
       THEN /\ shutdownCh' = shutdownCh + 1
            /\ sigDelivered' = TRUE
       ELSE UNCHANGED <<shutdownCh, sigDelivered>>
  /\ UNCHANGED <<components, cause, closed, fault, notified, pc, locals,
                 regLog, startLog, stopLog, stopRets, stopErrAt, passes,
                 stopNoSig, stoppedBefore, earlyRet>>
  /\ UNCHANGED <<startFails, obs>>
  /\ UNCHANGED <<srv, mw, sapp, regMax, ctxDone, sh>>

\* ----------------------------------------------------------- observers
\* ctx := Context(); <-ctx.Done(): the goroutine blocks.
ObserveWait(o) ==
  /\ Alive /\ obs[o] = "away"
  /\ obs' = [obs EXCEPT ![o] = "waiting"]
  /\ UNCHANGED <<shared, pc, locals, sigSent, regLog, startLog, stopLog,
                 stopRets, stopErrAt, passes, sigDelivered, stopNoSig,
                 stoppedBefore, earlyRet, startFails>>
  /\ UNCHANGED <<srv, mw, sapp, regMax, ctxDone, sh>>

\* Done() is closed by the cancellation: the receive returns.
ObserveRelease(o) ==
  /\ Alive /\ obs[o] = "waiting"
  /\ Cancelled
  /\ obs' = [obs EXCEPT ![o] = "released"]
  /\ UNCHANGED <<shared, pc, locals, sigSent, regLog, startLog, stopLog,
                 stopRets, stopErrAt, passes, sigDelivered, stopNoSig,
                 stoppedBefore, earlyRet, startFails>>
  /\ UNCHANGED <<srv, mw, sapp, regMax, ctxDone, sh>>

Observe(o) == ObserveWait(o) \/ ObserveRelease(o)

\* ------------------------------------------------------ Start, once more
\* Start() is called again after it has returned: signal.Notify, select.
StartAgain(t) ==
  /\ Alive /\ pc[t] = "start_done"
  /\ notified' = TRUE
  /\ pc' = [pc EXCEPT ![t] = "start_wait"]
  /\ UNCHANGED <<components, cause, shutdownCh, closed, fault, locals,
                 sigSent, hist>>
  /\ UNCHANGED <<startFails, obs>>
  /\ UNCHANGED <<srv, mw, sapp, regMax, ctxDone, sh>>

\* ==================================================================
\* chix.Server and httpx.Server: Start, Close, Router.
\* One goroutine calls Start once, one goroutine calls Close, the caller may
\* cancel the context it passed to Start, and (chix) Router is called.
\* ==================================================================
Kinds == {"chix", "httpx"}

RouterPanic == "server already started, cannot configure the router anymore"
NilFuncCall == "invalid memory address or nil pointer dereference"
CloseOfNil == "close of nil channel"

\* &Server{config: *c, router: r}: every other field has its zero value.
SrvInit(k) ==
  [kind |-> k,
   pc |-> "init",          \* position of the goroutine that calls Start
   res |-> "none",         \* what Start returned: "nil" or "err"
   started |-> FALSE,      \* chix: r.started
   closeFn |-> FALSE,      \* r.closeFn # nil
   closeCh |-> "nil",      \* httpx: r.closeCh: "nil", "open", "closed"
   once |-> "idle",        \* httpx: the sync.OnceFunc behind r.closeFn
   deferCh |-> "none",     \* httpx: the channel defer close(r.closeCh) will
                           \*   close: "none" (not evaluated), "nil", "ch"
   httpCloses |-> 0,       \* calls of srv.Close() on the http.Server
   ctxDone |-> FALSE,      \* the context passed to Start is cancelled
   cancelled |-> FALSE,    \* chix: the cancel of shutdown.Context was called
   signalled |-> FALSE,    \* chix: a signal reached signal.NotifyContext
   watch |-> "none",       \* the goroutine Start spawns
   closer |-> "idle",      \* position of the goroutine that calls Close
   closeCalls |-> 0,       \* Close calls made
   routerLog |-> <<>>,     \* Router calls: <<made after Start was called,
                           \*   "router" or the panic value>>
   panics |-> {},          \* panic values raised in a caller of Close/Router
   serveFailed |-> FALSE,  \* srv.Serve returned an error of its own
   earlyClose |-> FALSE,   \* a Close call was made before Start was called
   closeServing |-> FALSE] \* a Close call was made while srv.Serve ran

\* chix: ctx, cancel = shutdown.Context(ctx): done when the parent is, when
\* cancel was called or when a signal arrived.
ChixDone == srv.ctxDone \/ srv.cancelled \/ srv.signalled

SrvFrame == UNCHANGED <<appVars, mw, sapp, regMax, ctxDone, sh>>

\* Start(ctx) is called.
SrvStartCall ==
  /\ srv.pc = "init"
  /\ srv' = [srv EXCEPT !.pc = "called"]
  /\ SrvFrame

\* chix configure(), under startedM: closeFn is set, net.Listen; started is
\* set only when the listener was opened, else Start returns err.
ChixConfigure(ok) ==
  /\ srv.kind = "chix" /\ srv.pc = "called"
  /\ srv' = IF ok
            THEN [srv EXCEPT !.closeFn = TRUE, !.started = TRUE,
                             !.pc = "configured"]
            ELSE [srv EXCEPT !.closeFn = TRUE, !.pc = "returned",
                             !.res = "err"]
  /\ SrvFrame

\* httpx: l, err := net.Listen(...); if err != nil { return err }
HxListen(ok) ==
  /\ srv.kind = "httpx" /\ srv.pc = "called"
  /\ srv' = IF ok THEN [srv EXCEPT !.pc = "listened"]
            ELSE [srv EXCEPT !.pc = "returned", !.res = "err"]
  /\ SrvFrame

\* httpx: r.closeFn = sync.OnceFunc(...)
HxSetCloseFn ==
  /\ srv.kind = "httpx" /\ srv.pc = "listened"
  /\ srv' = [srv EXCEPT !.closeFn = TRUE, !.once = "idle", !.pc = "fnset"]
  /\ SrvFrame

\* httpx: r.closeCh = make(chan struct{})
HxMakeCloseCh ==
  /\ srv.kind = "httpx" /\ srv.pc = "fnset"
  /\ srv' = [srv EXCEPT !.closeCh = "open", !.pc = "chmade"]
  /\ SrvFrame

\* go func() { select { ... } }()
SrvSpawn ==
  /\ \/ srv.kind = "chix" /\ srv.pc = "configured"
     \/ srv.kind = "httpx" /\ srv.pc = "chmade"
  /\ srv' = [srv EXCEPT !.pc = "spawned", !.watch = "waiting"]
  /\ SrvFrame

\* srv.Serve(l) is entered.
SrvServe ==
  /\ srv.pc = "spawned"
  /\ srv' = [srv EXCEPT !.pc = "serving"]
  /\ SrvFrame

\* srv.Serve returns http.ErrServerClosed once srv.Close() was called (also
\* when that was before Serve); errors.Is(err, http.ErrServerClosed) makes
\* Start return nil.
ClosedIsError(e) == "err"
ServeResult(e) == IF e = "ErrServerClosed" THEN "nil" ELSE "err"

SrvServeReturn ==
  /\ srv.pc = "serving" /\ srv.httpCloses > 0
  /\ srv' = [srv EXCEPT !.pc = "returned",
                        !.res = ServeResult("ErrServerClosed")]
  /\ SrvFrame

\* srv.Serve fails on its own (the listener breaks): Start returns that
\* error.
SrvServeFail ==
  /\ srv.pc = "serving" /\ srv.httpCloses = 0
  /\ srv' = [srv EXCEPT !.pc = "returned", !.res = ServeResult("accept"),
                        !.serveFailed = TRUE]
  /\ SrvFrame

\* chix goroutine: case <-ctx.Done(): srv.Close()
ChixWatch ==
  /\ srv.kind = "chix" /\ srv.watch = "waiting"
  /\ ChixDone
  /\ srv' = [srv EXCEPT !.httpCloses = @ + 1, !.watch = "done"]
  /\ SrvFrame

\* httpx goroutine: case <-r.closeCh: return
HxWatchClosed ==
  /\ srv.kind = "httpx" /\ srv.watch = "waiting"
  /\ srv.closeCh = "closed"
  /\ srv' = [srv EXCEPT !.watch = "done"]
  /\ SrvFrame

\* httpx goroutine: case <-ctx.Done(): srv.Close()
HxWatchCtx ==
  /\ srv.kind = "httpx" /\ srv.watch = "waiting"
  /\ srv.ctxDone
  /\ srv' = [srv EXCEPT !.httpCloses = @ + 1, !.watch = "done"]
  /\ SrvFrame

\* the caller of Start cancels the context it passed.
SrvCancelCtx ==
  /\ ~srv.ctxDone
  /\ srv' = [srv EXCEPT !.ctxDone = TRUE]
  /\ SrvFrame

\* chix: SIGINT or SIGTERM once signal.NotifyContext is set up.
ChixSignal ==
  /\ srv.kind = "chix" /\ srv.closeFn /\ ~srv.signalled
  /\ srv' = [srv EXCEPT !.signalled = TRUE]
  /\ SrvFrame

\* history of a Close call
CloseNoted(r) ==
  [r EXCEPT !.closeCalls = @ + 1,
            !.earlyClose = @ \/ srv.pc = "init",
            !.closeServing = @ \/ srv.pc = "serving"]

\* chix Close(), under startedM: if !r.started { return }; r.closeFn()
ChixCloseUnchecked ==
  /\ srv.kind = "chix" /\ srv.closer = "idle"
  /\ srv.closeCalls < MaxCloseCalls
  /\ srv' = IF srv.closeFn
            THEN CloseNoted([srv EXCEPT !.cancelled = TRUE])
            ELSE CloseNoted([srv EXCEPT !.panics = @ \cup {NilFuncCall}])
  /\ SrvFrame

ChixClose ==
  /\ srv.kind = "chix" /\ srv.closer = "idle"
  /\ srv.closeCalls < MaxCloseCalls
  /\ srv' = IF ~srv.started THEN CloseNoted(srv)
            ELSE CloseNoted([srv EXCEPT !.cancelled = TRUE])
  /\ SrvFrame

\* httpx Close(): if r.closeFn == nil { return }; r.closeFn().  The
\* OnceFunc runs its function on the first call, does nothing once that has
\* returned and panics again when it had panicked.
HxCloseCall ==
  /\ srv.kind = "httpx" /\ srv.closer = "idle"
  /\ srv.closeCalls < MaxCloseCalls
  /\ srv' = IF ~srv.closeFn THEN CloseNoted(srv)
            ELSE IF srv.once = "idle"
              THEN CloseNoted([srv EXCEPT !.once = "running",
                                          !.closer = "once_defer"])
            ELSE IF srv.once = "panicked"
              THEN CloseNoted([srv EXCEPT !.panics = @ \cup {CloseOfNil}])
            ELSE CloseNoted(srv)
  /\ SrvFrame

\* inside the OnceFunc: defer close(r.closeCh); the argument of the
\* deferred call is evaluated here, when the defer statement runs.
HxOnceDefer ==
  /\ srv.kind = "httpx" /\ srv.closer = "once_defer"
  /\ srv' = [srv EXCEPT
       !.deferCh = IF srv.closeCh = "nil" THEN "nil" ELSE "ch",
       !.closer = "once_srvclose"]
  /\ SrvFrame

\* inside the OnceFunc: srv.Close()
HxOnceSrvClose ==
  /\ srv.kind = "httpx" /\ srv.closer = "once_srvclose"
  /\ srv' = [srv EXCEPT !.httpCloses = @ + 1, !.closer = "once_closech"]
  /\ SrvFrame

\* inside the OnceFunc, deferred: close of the channel evaluated by the
\* defer statement; closing a nil or a closed channel panics.
HxOnceCloseCh ==
  /\ srv.kind = "httpx" /\ srv.closer = "once_closech"
  /\ srv' = IF srv.deferCh = "ch" /\ srv.closeCh = "open"
            THEN [srv EXCEPT !.closeCh = "closed", !.once = "done",
                             !.closer = "idle"]
            ELSE [srv EXCEPT !.once = "panicked", !.closer = "idle",
                    !.panics = @ \cup {IF srv.deferCh = "nil" THEN CloseOfNil
                                       ELSE CloseOfClosed}]
  /\ SrvFrame

\* chix Router(), under startedM: if r.started { panic(...) }; return r.router
ChixRouter ==
  /\ srv.kind = "chix"
  /\ Len(srv.routerLog) < MaxRouterCalls
  /\ srv' = IF srv.started
            THEN [srv EXCEPT
                    !.routerLog = Append(@, <<srv.pc # "init", RouterPanic>>),
                    !.panics = @ \cup {RouterPanic}]
            ELSE [srv EXCEPT
                    !.routerLog = Append(@, <<srv.pc # "init", "router">>)]
  /\ SrvFrame

SrvStart ==
  \/ SrvStartCall
  \/ \E ok \in BOOLEAN : ChixConfigure(ok)
  \/ \E ok \in BOOLEAN : HxListen(ok)
  \/ HxSetCloseFn
  \/ HxMakeCloseCh
  \/ SrvSpawn
  \/ SrvServe
  \/ SrvServeReturn

SrvWatch == ChixWatch \/ HxWatchClosed \/ HxWatchCtx

SrvClose ==
  \/ ChixClose
  \/ HxCloseCall
  \/ HxOnceDefer
  \/ HxOnceSrvClose
  \/ HxOnceCloseCh

NextSrv ==
  \/ SrvStart
  \/ SrvServeFail
  \/ SrvWatch
  \/ SrvClose
  \/ SrvCancelCtx
  \/ ChixSignal
  \/ ChixRouter

\* ==================================================================
\* chix.Config: NewServer and its options.
\* ==================================================================
\* setDefaults(): RequestID, RealIP, RequestLogger
Defaults == <<"RequestID", "RealIP", "RequestLogger">>

KeepOld(old) == old
SetDefaults(old) == Defaults

Pre(m) == [op |-> "pre", m |-> <<m>>]
Post(m) == [op |-> "post", m |-> <<m>>]
With(ms) == [op |-> "with", m |-> ms]

\* opt(c) for one option
ApplyOpt(o, ms) ==
  CASE o.op = "pre" -> o.m \o ms
    [] o.op = "post" -> ms \o o.m
    [] o.op = "with" -> o.m

\* for _, opt := range opts { opt(c) }
RECURSIVE ApplyOpts(_, _, _)
ApplyOpts(opts, i, ms) ==
  IF i > Len(opts) THEN ms
  ELSE ApplyOpts(opts, i + 1, ApplyOpt(opts[i], ms))

\* the chain wraps the endpoint from the last middleware to the first; a
\* handler is written as the order in which a request passes through it.
RECURSIVE Wrap(_, _, _)
Wrap(ms, i, h) == IF i = 0 THEN h ELSE Wrap(ms, i - 1, <<ms[i]>> \o h)

ExecOrder(ms) == Wrap(ms, Len(ms), <<>>)

MwInit == [cfg |-> <<>>, chain |-> <<>>, opts |-> <<>>, calls |-> 0]

SmallOpts ==
  {Pre("m1"), Pre("m2"), Post("m1"), Post("m2"), With(<<>>),
   With(<<"m1", "m2">>)}

FullExample ==
  <<With(<<"m3", "m4">>), Pre("m2"), Pre("m1"), Post("m5"), Post("m6")>>

OptLists ==
  UNION {[1..n -> SmallOpts] : n \in 0..MaxOpts} \cup {FullExample}

\* c.NewServer(opts...): setDefaults, the options in order, r.Use(...)
NewServer(opts) ==
  /\ mw.calls < MaxNewServer
  /\ LET ms == ApplyOpts(opts, 1, SetDefaults(mw.cfg))
     IN mw' = [cfg |-> ms, chain |-> ExecOrder(ms), opts |-> opts,
               calls |-> mw.calls + 1]
  /\ UNCHANGED <<appVars, srv, sapp, regMax, ctxDone, sh>>

NextMw == \E opts \in OptLists : NewServer(opts)

\* ==================================================================
\* App as a struct (src/unnamed/part_000): New, Register, Start, Stop,
\* Context.  Start waits on a context derived from a.ctx by
\* shutdown.Context, i.e. signal.NotifyContext.
\* ==================================================================

\* New(): fresh a.ctx, no component, closingCh open.
SaInit ==
  [components |-> <<>>,   \* a.components
   cause      |-> NoCause,\* a.ctx: NoCause while not cancelled
   nctx       |-> "none", \* the context made by shutdown.Context:
                          \*   "none", "live" or "done"
   nctxBy     |-> "none", \* what cancelled it: "signal", "parent", "stop"
   sigCh      |-> 0,      \* signals buffered in NotifyContext's channel
   notified   |-> FALSE,  \* signal.Notify is in force for that channel
   watcher    |-> "none", \* NotifyContext's goroutine: "none", "live", "gone"
   pc         |-> "new",  \* the goroutine of Register and Start
   wokenBy    |-> "none", \* why Start left its select
   closed     |-> FALSE,  \* a.closingCh has been closed
   fault      |-> NoFault,
   stopped    |-> <<>>,   \* c.Stop() calls, in order
   regs       |-> 0,      \* Register calls made
   sigSent    |-> 0,
   spc        |-> [t \in Stoppers |-> "idle"],
   sbranch    |-> [t \in Stoppers |-> "none"],
   scalls     |-> [t \in Stoppers |-> 0]]

SaAlive == sapp.fault = NoFault

SaFrame == UNCHANGED <<appVars, srv, mw, regMax, ctxDone, sh>>

\* a.exit(err): a.cleanup(), then panic(err).
SaExit(err) ==
  sapp' = [sapp EXCEPT !.stopped = @ \o sapp.components,
                       !.components = <<>>,
                       !.fault = err,
                       !.pc = "panicked",
                       !.regs = @ + 1]

\* a.Register(c): nil and a failed c.Start() go to a.exit, otherwise c is
\* appended.
SaRegister(c, ok) ==
  /\ SaAlive /\ sapp.pc = "new"
  /\ sapp.regs < MaxReg
  /\ IF c = Nil THEN SaExit(NilErr)
     ELSE IF ~ok THEN SaExit(StartErr(c))
     ELSE sapp' = [sapp EXCEPT !.components = Append(@, c), !.regs = @ + 1]
  /\ SaFrame

\* a.Start(): shutdown.Context(a.ctx, ...).  signal.NotifyContext derives a
\* context from a.ctx, calls signal.Notify and, when the derived context is
\* not done yet, starts the goroutine that waits for a signal.
SaStartCall ==
  /\ SaAlive /\ sapp.pc = "new"
  /\ sapp' = [sapp EXCEPT
       !.nctx = IF sapp.cause # NoCause THEN "done" ELSE "live",
       !.nctxBy = IF sapp.cause # NoCause THEN "parent" ELSE "none",
       !.watcher = IF sapp.cause # NoCause THEN "none" ELSE "live",
       !.notified = TRUE,
       !.pc = "start_wait"]
  /\ SaFrame

\* the process receives a signal of the list: non-blocking send into the
\* channel of capacity 1.
SaSignal ==
  /\ SaAlive /\ sapp.notified
  /\ sapp.sigSent < MaxSignals
  /\ sapp' = [sapp EXCEPT !.sigSent = @ + 1,
                          !.sigCh = IF @ < ChanCap THEN @ + 1 ELSE @]
  /\ SaFrame

\* NotifyContext's goroutine, case <-c.ch: c.cancel().  Only the derived
\* context is cancelled; a.ctx, its parent, is left alone.
SaWatchSignal ==
  /\ SaAlive /\ sapp.watcher = "live"
  /\ sapp.sigCh > 0
  /\ sapp' = [sapp EXCEPT
       !.sigCh = @ - 1,
       !.watcher = "gone",
       !.nctx = "done",
       !.nctxBy = IF sapp.nctx = "done" THEN @ ELSE "signal"]
  /\ SaFrame

\* NotifyContext's goroutine, case <-c.Done().
SaWatchDone ==
  /\ SaAlive /\ sapp.watcher = "live"
  /\ sapp.nctx = "done"
  /\ sapp' = [sapp EXCEPT !.watcher = "gone"]
  /\ SaFrame

\* Start's select: case <-ctx.Done(), on the derived context.
SaStartWake ==
  /\ SaAlive /\ sapp.pc = "start_wait"
  /\ sapp.nctx = "done"
  /\ sapp' = [sapp EXCEPT !.wokenBy = sapp.nctxBy, !.pc = "cleanup"]
  /\ SaFrame

\* deferred: a.cleanup()
SaCleanup ==
  /\ SaAlive /\ sapp.pc = "cleanup"
  /\ sapp' = [sapp EXCEPT !.stopped = @ \o sapp.components,
                          !.components = <<>>,
                          !.pc = "close"]
  /\ SaFrame

\* deferred: close(a.closingCh)
SaClose ==
  /\ SaAlive /\ sapp.pc = "close"
  /\ sapp' = IF sapp.closed
               THEN [sapp EXCEPT !.fault = CloseOfClosed, !.pc = "panicked"]
               ELSE [sapp EXCEPT !.closed = TRUE, !.pc = "cancel"]
  /\ SaFrame

\* deferred: cancel(), the stop function of NotifyContext: cancels the
\* derived context and calls signal.Stop.  Start returns.
SaDeferCancel ==
  /\ SaAlive /\ sapp.pc = "cancel"
  /\ sapp' = [sapp EXCEPT
       !.nctx = "done",
       !.nctxBy = IF sapp.nctx = "done" THEN @ ELSE "stop",
       !.notified = FALSE,
       !.pc = "done"]
  /\ SaFrame

\* a.Stop(): a.cancel(fmt.Errorf("app stopped")); cancelling a.ctx cancels
\* the context derived from it.
SaStopCancel(t) ==
  /\ SaAlive /\ sapp.spc[t] = "idle"
  /\ sapp.scalls[t] < MaxStopCalls
  /\ sapp' = [sapp EXCEPT
       !.cause = Cancel(@, StopCause),
       !.nctx = IF @ = "none" THEN @ ELSE "done",
       !.nctxBy = IF sapp.nctx = "live" THEN "parent" ELSE @,
       !.scalls[t] = @ + 1,
       !.spc[t] = "stop_select"]
  /\ SaFrame

\* select entered with a.closingCh open: the goroutine blocks.
SaStopBlock(t) ==
  /\ SaAlive /\ sapp.spc[t] = "stop_select"
  /\ ~sapp.closed
  /\ sapp' = [sapp EXCEPT !.spc[t] = "stop_wait"]
  /\ SaFrame

\* select: case <-a.closingCh
SaStopComplete(t) ==
  /\ SaAlive /\ sapp.spc[t] \in {"stop_select", "stop_wait"}
  /\ sapp.closed
  /\ sapp' = [sapp EXCEPT !.spc[t] = "idle", !.sbranch[t] = "complete"]
  /\ SaFrame

\* select: case <-time.After(a.forcefullyTimeout)
SaStopTimeout(t) ==
  /\ SaAlive /\ sapp.spc[t] = "stop_wait"
  /\ sapp' = [sapp EXCEPT !.spc[t] = "idle", !.sbranch[t] = "timeout"]
  /\ SaFrame

\* a.Context(): context.WithValue(a.ctx, "", ""), which is done when a.ctx
\* is and has the cause of a.ctx.
SaContextCause == sapp.cause

SaContextDone == sapp.cause # NoCause

NextSa ==
  \/ \E c \in Comps \cup {Nil}, ok \in BOOLEAN : SaRegister(c, ok)
  \/ SaStartCall
  \/ SaSignal
  \/ SaWatchSignal
  \/ SaWatchDone
  \/ SaStartWake
  \/ SaCleanup
  \/ SaClose
  \/ SaDeferCancel
  \/ \E t \in Stoppers :
       SaStopCancel(t) \/ SaStopBlock(t) \/ SaStopComplete(t)
         \/ SaStopTimeout(t)

\* ==================================================================
\* Package shutdown (src/unnamed/part_012): Wait, Chan, Context, signals.
\* One call of one helper, with the signals the process receives.
\* ==================================================================
Sigs == {"SIGINT", "SIGTERM", "SIGHUP", "SIGCHLD"}

\* a signal nobody asked for with signal.Notify: SIGINT, SIGTERM and SIGHUP
\* end the program, SIGCHLD is ignored
Fatal == {"SIGINT", "SIGTERM", "SIGHUP"}

Helpers == {"wait", "chan", "context"}

\* var defaultSigs
DefaultSigs == <<"SIGINT", "SIGTERM">>

\* signals(overwrite...)
SignalsExtend(overwrite) == DefaultSigs \o overwrite
Signals(overwrite) == IF Len(overwrite) > 0 THEN overwrite ELSE DefaultSigs

Range(s) == {s[i] : i \in DOMAIN s}

Overwrites == UNION {[1..n -> Sigs] : n \in 0..MaxOverwrite}

ShInit(k, ow) ==
  [kind      |-> k,       \* the helper called
   overwrite |-> ow,      \* its variadic argument
   pc        |-> "init",  \* "init", "waiting", "returned" (Wait)
   set       |-> {},      \* the signals given to signal.Notify
   notifying |-> FALSE,   \* signal.Notify is in force for the channel
   ch        |-> <<>>,    \* the channel of capacity 1
   got       |-> <<>>,    \* Chan: what the client received from it
   ctx       |-> "none",  \* Context: "none", "live", "done"
   by        |-> "none",  \* Context: "signal", "parent" or "stop"
   watcher   |-> "none",  \* Context: NotifyContext's goroutine
   parentDone|-> FALSE,   \* Context: the ctx argument is cancelled
   delivered |-> {},      \* signals the process has received
   caught    |-> {},      \* signals put into the channel
   sigs      |-> 0,
   dead      |-> FALSE]   \* a signal has ended the program

ShFrame == UNCHANGED <<appVars, srv, mw, sapp, regMax, ctxDone>>

\* Chan: make(chan os.Signal, 1); signal.Notify(signalChan, signals(...)...)
\* Wait goes on to block on the channel, Chan returns it.
ShChan ==
  /\ ~sh.dead /\ sh.pc = "init" /\ sh.kind \in {"wait", "chan"}
  /\ sh' = [sh EXCEPT !.set = Range(Signals(sh.overwrite)),
                      !.notifying = TRUE,
                      !.pc = "waiting"]
  /\ ShFrame

\* Context: signal.NotifyContext(ctx, signals(...)...): a context derived
\* from ctx, signal.Notify on a channel of capacity 1 and, unless the
\* context is done already, a goroutine waiting for a signal.
ShContext ==
  /\ ~sh.dead /\ sh.pc = "init" /\ sh.kind = "context"
  /\ sh' = [sh EXCEPT !.set = Range(Signals(sh.overwrite)),
                      !.notifying = TRUE,
                      !.ctx = IF sh.parentDone THEN "done" ELSE "live",
                      !.by = IF sh.parentDone THEN "parent" ELSE "none",
                      !.watcher = IF sh.parentDone THEN "none" ELSE "live",
                      !.pc = "waiting"]
  /\ ShFrame

\* the process receives s: relayed with a non-blocking send when
\* signal.Notify asked for it, else the default action of s.
ShSignal(s) ==
  /\ ~sh.dead /\ sh.sigs < MaxShSignals
  /\ sh' = IF sh.notifying /\ s \in sh.set
             THEN IF Len(sh.ch) < ChanCap
                    THEN [sh EXCEPT !.sigs = @ + 1,
                                    !.delivered = @ \cup {s},
                                    !.caught = @ \cup {s},
                                    !.ch = <<s>>]
                    ELSE [sh EXCEPT !.sigs = @ + 1,
                                    !.delivered = @ \cup {s}]
             ELSE [sh EXCEPT !.sigs = @ + 1,
                             !.delivered = @ \cup {s},
                             !.dead = (s \in Fatal)]
  /\ ShFrame

\* Wait: <-signalChan
ShWaitRecv ==
  /\ ~sh.dead /\ sh.kind = "wait" /\ sh.pc = "waiting"
  /\ sh.ch # <<>>
  /\ sh' = [sh EXCEPT !.ch = <<>>, !.pc = "returned"]
  /\ ShFrame

\* the client of Chan receives from the channel
ShChanRecv ==
  /\ ~sh.dead /\ sh.kind = "chan" /\ sh.pc = "waiting"
  /\ sh.ch # <<>>
  /\ sh' = [sh EXCEPT !.got = Append(@, sh.ch[1]), !.ch = <<>>]
  /\ ShFrame

\* NotifyContext's goroutine, case <-c.ch: c.cancel()
ShWatchSignal ==
  /\ ~sh.dead /\ sh.watcher = "live"
  /\ sh.ch # <<>>
  /\ sh' = [sh EXCEPT !.ch = <<>>,
                      !.watcher = "gone",
                      !.ctx = "done",
                      !.by = IF sh.ctx = "done" THEN @ ELSE "signal"]
  /\ ShFrame

\* NotifyContext's goroutine, case <-c.Done()
ShWatchDone ==
  /\ ~sh.dead /\ sh.watcher = "live"
  /\ sh.ctx = "done"
  /\ sh' = [sh EXCEPT !.watcher = "gone"]
  /\ ShFrame

\* the caller cancels the context it passed to Context
ShParentCancel ==
  /\ ~sh.dead /\ sh.kind = "context" /\ ~sh.parentDone
  /\ sh' = [sh EXCEPT !.parentDone = TRUE,
                      !.ctx = IF @ = "none" THEN @ ELSE "done",
                      !.by = IF sh.ctx = "live" THEN "parent" ELSE @]
  /\ ShFrame

\* the caller calls the CancelFunc Context returned: c.cancel() and
\* signal.Stop(c.ch)
ShStop ==
  /\ ~sh.dead /\ sh.kind = "context" /\ sh.pc = "waiting"
  /\ sh.notifying
  /\ sh' = [sh EXCEPT !.ctx = "done",
                      !.by = IF sh.ctx = "done" THEN @ ELSE "stop",
                      !.notifying = FALSE]
  /\ ShFrame

NextSh ==
  \/ ShChan
  \/ ShContext
  \/ \E s \in Sigs : ShSignal(s)
  \/ ShWaitRecv
  \/ ShChanRecv
  \/ ShWatchSignal
  \/ ShWatchDone
  \/ ShParentCancel
  \/ ShStop

\* ---------------------------------------------------------------- spec
Cleanup(t) ==
  \/ CleanupEnter(t)
  \/ CleanupStopInvoke(t)
  \/ \E failed \in BOOLEAN : CleanupStopReturn(t, failed)
  \/ CleanupClear(t)

Register(t) ==
  \/ RegisterNil(t)
  \/ \E c \in Comps, ok \in BOOLEAN : RegisterStart(t, c, ok)
  \/ RegisterAppend(t)
  \/ ExitPanic(t)

Start(t) ==
  \/ StartNotify(t)
  \/ StartSelectSignal(t)
  \/ StartCancel(t)
  \/ StartSelectCtx(t)
  \/ StartClose(t)

Stop(t) ==
  \/ StopCancel(t)
  \/ StopBlock(t)
  \/ StopComplete(t)
  \/ StopTimeout(t)

Init ==
  /\ AppInit /\ srv = SrvInit("chix") /\ mw = MwInit /\ sapp = SaInit
  /\ regMax = MaxReg
  /\ sh = ShInit("wait", <<>>)

Next ==
  \/ Register(Main)
  \/ Start(Main)
  \/ \E t \in Threads : Cleanup(t)
  \/ \E t \in Stoppers : Stop(t)
  \/ Signal

Spec == Init /\ [][Next]_vars

\* The goroutine in Start is scheduled, and a c.Stop() it has called
\* returns.
FairSpec == Spec /\ WF_vars(Start(Main) \/ Cleanup(Main))

\* Spec with goroutines that wait on Context().Done(); a goroutine whose
\* receive can return is scheduled.
NextObs == Next \/ \E o \in Observers : Observe(o)

ObsSpec ==
  Init /\ [][NextObs]_vars /\ \A o \in Observers : WF_vars(ObserveRelease(o))

\* Spec with Start called again after it has returned.
NextRerun == Next \/ StartAgain(Main)

RerunSpec == Init /\ [][NextRerun]_vars

\* Spec with the goroutines that call Stop scheduled and their timers
\* firing; nothing is assumed of the goroutine of Register and Start.
StopFairSpec == Spec /\ \A t \in Stoppers : WF_vars(Stop(t))

\* A server of either kind with the goroutines using it.
ServerInit ==
  /\ AppInit /\ (\E k \in Kinds : srv = SrvInit(k)) /\ mw = MwInit
  /\ sapp = SaInit /\ regMax = MaxReg /\ sh = ShInit("wait", <<>>)

ServerSpec == ServerInit /\ [][NextSrv]_vars

\* The goroutine in Start, the goroutine it spawns and the one in Close are
\* scheduled; srv.Serve is not assumed to fail.
ServerFairSpec ==
  ServerSpec /\ WF_vars(SrvStart) /\ WF_vars(SrvWatch) /\ WF_vars(SrvClose)

\* A Config on which NewServer is called with lists of options.
MwSpec == Init /\ [][NextMw]_vars

\* ----------------------------------------------------------- properties
RunReturned == pc[Main] = "start_done"

Occ(s, c) == Cardinality({i \in DOMAIN s : s[i] = c})

\* the exit path entered by Register(nil) / by a failed c.Start()
NilExit(t) == exitErr[t] = NilErr
StartFailedExit(t) == exitErr[t] \notin {NoErr, NilErr}

\* C1: when Start has returned (after a signal or a Stop), c.Stop() has been
\* called once for every registration, in registration order.
C1_StopsInRegistrationOrder ==
  RunReturned =>
    /\ stopLog = regLog
    /\ \A c \in Comps : Occ(stopLog, c) = Occ(regLog, c)

C1_Witness ==
  /\ RunReturned
  /\ Len(regLog) >= 2 /\ regLog[1] # regLog[2]
  /\ stopLog = regLog

C4_ReturnedMeansStopped ==
  RunReturned =>
    /\ Len(stopLog) = Len(regLog)
    /\ stopLog = clSnap[Main]
    /\ stopRets = Len(stopLog)
    /\ components = <<>>
    /\ closed

C4_Witness ==
  /\ RunReturned
  /\ \E e \in earlyRet : e[2] > 0
  /\ stopRets = Len(regLog) /\ components = <<>>

\* C5: whatever number of Stop calls is made, at most one cleanup pass runs
\* and no component has Stop() called more often than it was registered.
C5_StopIdempotent ==
  /\ passes <= 1
  /\ \A c \in Comps : Occ(stopLog, c) <= Occ(regLog, c)

C5_Witness ==
  /\ RunReturned
  /\ \A t \in Stoppers : stopCalls[t] >= 1 /\ pc[t] = "idle"
  /\ \E t \in Stoppers : stopBranch[t] = "complete"
  /\ passes = 1 /\ Len(stopLog) >= 1

\* C6: a Stop that cancels while Start is in its select and no signal has
\* been delivered leaves the context cancelled with cause "app stopped",
\* for good.
C6_StopCause ==
  stopNoSig => cause = "app stopped"

C6_Witness ==
  /\ stopNoSig /\ RunReturned /\ cause = "app stopped"
  /\ wokenBy[Main] = "ctx"

\* C7 as stated: when Start left its select on the signal case, after it
\* has returned the cause is "app closing triggered by system call".
C7_SignalCauseAlways ==
  (RunReturned /\ wokenBy[Main] = "signal") =>
    cause = "app closing triggered by system call"

\* C7 amended: when Start left its select on the signal case, after it has
\* returned the context is cancelled; the cause is "app closing triggered
\* by system call" when no Stop had cancelled before Start did, and
\* "app stopped" otherwise.
C7_SignalCauseUnlessStopped ==
  (RunReturned /\ wokenBy[Main] = "signal") =>
    cause = IF stoppedBefore THEN "app stopped"
            ELSE "app closing triggered by system call"

C7_Witness ==
  /\ RunReturned /\ wokenBy[Main] = "signal" /\ ~stoppedBefore
  /\ cause = "app closing triggered by system call"

\* C8: a Stop that returns on the timer while Start's cleanup is not
\* finished changes nothing of that cleanup (closingCh stays open,
\* components and the position of the loop are untouched); the cleanup goes
\* on: the c.Stop() in progress returns, closingCh is closed and Start
\* returns, all after that Stop has returned.
C8_TimeoutStep(t) ==
  /\ pc[t] = "stop_wait" /\ pc'[t] # "stop_wait"
  /\ stopBranch'[t] = "timeout"
  /\ ~closed /\ InStartCleanup

C8_NotInterrupted ==
  [][\A t \in Stoppers : C8_TimeoutStep(t) =>
        /\ ~closed'
        /\ components' = components
        /\ pc'[Main] = pc[Main]
        /\ clIdx'[Main] = clIdx[Main] /\ clSnap'[Main] = clSnap[Main]
        /\ stopLog' = stopLog /\ stopRets' = stopRets]_vars

C8_CleanupGoesOn ==
  \A t \in Stoppers : \A k \in 0..(MaxReg + 1) :
    (<<t, k>> \in earlyRet) ~> (closed /\ RunReturned /\ stopRets >= k
                                 /\ stopRets = Len(regLog))

C8_TimeoutDetaches == C8_NotInterrupted /\ C8_CleanupGoesOn

C8_Witness ==
  /\ \E e \in earlyRet : e[2] > 0 /\ pc[e[1]] = "idle"
  /\ closed /\ RunReturned

\* C9: an error returned by c.Stop() does not end the pass and raises no
\* panic: a finished pass has called Stop() on every element of the slice,
\* a panic value only ever comes from exit, and Start returns with
\* components empty and closingCh closed.
PassFinished(t) ==
  pc[t] \in {"start_close", "start_done", "exit_panic", "panicked"}

C9_StopErrorTolerated ==
  stopErrAt # {} =>
    /\ PassFinished(Main) => (stopLog = clSnap[Main] /\ components = <<>>)
    /\ fault # NoFault => fault = exitErr[Main]
    /\ RunReturned => (stopLog = regLog /\ closed /\ fault = NoFault)

C9_Witness ==
  /\ RunReturned /\ closed /\ fault = NoFault
  /\ 1 \in stopErrAt /\ Len(stopLog) >= 2
  /\ \E t \in Stoppers : stopBranch[t] = "complete" /\ pc[t] = "idle"

\* C10: Start leaves its select only after a signal has been put into
\* shutdownCh or the context has been cancelled; while it is in the select
\* no Stop() has been called on a component and closingCh is open.
PastSelect == pc[Main] = "start_cancel" \/ InStartCleanup \/ RunReturned

C10_LeavesWaitOnlyOnEvent ==
  /\ PastSelect => (sigDelivered \/ Cancelled)
  /\ closed => (sigDelivered \/ Cancelled)
  /\ pc[Main] = "start_wait" => (stopLog = <<>> /\ passes = 0 /\ ~closed)

C10_Witness ==
  /\ PastSelect /\ closed /\ Len(stopLog) >= 1
  /\ Cancelled /\ ~sigDelivered

\* C11: cancellation is irreversible; when Start has returned, after a
\* signal as well as after a Stop, the context is cancelled, and every
\* goroutine blocked on Context().Done() at that point gets released.
C11_ObserversReleased ==
  /\ [][Cancelled => Cancelled']_vars
  /\ [](RunReturned => Cancelled)
  /\ \A o \in Observers :
        (obs[o] = "waiting" /\ RunReturned) ~> (obs[o] = "released")

C11_Witness ==
  /\ RunReturned /\ wokenBy[Main] = "signal" /\ ~stoppedBefore
  /\ \E o \in Observers : obs[o] = "released"

\* C12: closingCh is never closed a second time, also when Start is called
\* more than once: close(closingCh) is never reached with closingCh closed.
C12_ClosedAtMostOnce ==
  /\ ~(pc[Main] = "start_close" /\ closed)
  /\ fault # "close of closed channel"

\* C13: every element of components is a component whose Start() was called
\* and returned nil; a component whose Start() failed is never appended.
C13_OnlyStartedRegistered ==
  /\ \A i \in DOMAIN components :
        i <= Len(startLog) /\ components[i] = startLog[i] /\ i \notin startFails
  /\ \A i \in DOMAIN regLog :
        i <= Len(startLog) /\ regLog[i] = startLog[i] /\ i \notin startFails
  /\ Len(regLog) + Cardinality(startFails) <= Len(startLog)

C13_Witness ==
  /\ startFails = {Len(startLog)} /\ fault # NoFault
  /\ Len(regLog) = Len(startLog) - 1 /\ Len(regLog) >= 1

\* C14: once the context is cancelled its cause never changes, whichever of
\* Stop and the signal case of Start cancels later.
C14_CauseWriteOnce ==
  [][cause # NoCause => cause' = cause]_vars

C14_Witness ==
  /\ cause = "app closing triggered by system call" /\ ~stoppedBefore
  /\ \E t \in Stoppers : stopCalls[t] >= 1 /\ pc[t] = "idle"

\* C15: closingCh stays closed once closed, so one close serves every
\* receiver; a Stop that enters its select with closingCh closed leaves it on
\* the closingCh case, without blocking.
C15_CompleteReleasesAll ==
  [][/\ closed => closed'
     /\ \A t \in Stoppers :
          (pc[t] = "stop_select" /\ closed /\ pc'[t] # pc[t]) =>
            (pc'[t] = "idle" /\ stopBranch'[t] = "complete")]_vars

C15_Witness ==
  /\ closed /\ pc[Main] = "start_done"
  /\ \A t \in Stoppers : pc[t] = "idle" /\ stopBranch[t] = "complete"

\* C16: a Stop call that has begun returns (unless a panic ends the process
\* first), given only that its goroutine runs and its timer fires: Start
\* need not have been called and a c.Stop() need not return.
C16_StopReturns ==
  \A t \in Stoppers :
    (pc[t] \in {"stop_select", "stop_wait"}) ~> (pc[t] = "idle" \/ ~Alive)

C16_Witness ==
  /\ pc[Main] = "cl_stopping"
  /\ \E e \in earlyRet : e[2] = Len(stopLog) /\ pc[e[1]] = "idle"

\* C17: a Router() call made after Start() was called panics with "server
\* already started, cannot configure the router anymore", also when Start
\* could not open its listener; a call made before returns the router.
C17_RouterPanicsAfterStart ==
  \A i \in DOMAIN srv.routerLog :
    srv.routerLog[i][2] =
      IF srv.routerLog[i][1]
      THEN "server already started, cannot configure the router anymore"
      ELSE "router"

\* C18: a Close() call on a server whose Start has not been called changes
\* nothing of the server: no panic, no close function invoked, no field
\* written (only the call itself is recorded).
C18_CloseBeforeStartNoop ==
  [][(srv.pc = "init" /\ srv'.closeCalls # srv.closeCalls) =>
       srv' = [srv EXCEPT !.closeCalls = @ + 1, !.earlyClose = TRUE]]_vars

C18_Witness ==
  /\ srv.earlyClose /\ srv.closeCalls >= 1
  /\ srv.pc = "serving" /\ srv.panics = {}

\* C19: once srv.Serve runs, cancelling the context passed to Start or
\* calling Close makes Start return; Start returns nil whenever the listener
\* was opened and srv.Serve did not fail on its own.
C19_GracefulCloseReturnsNil ==
  /\ (srv.pc = "serving" /\ (srv.ctxDone \/ srv.closeServing))
       ~> (srv.pc = "returned")
  /\ []((srv.pc = "returned" /\ srv.watch # "none" /\ ~srv.serveFailed)
          => srv.res = "nil")

C19_Witness ==
  /\ srv.pc = "returned" /\ srv.res = "nil"
  /\ srv.closeServing /\ ~srv.ctxDone /\ ~srv.signalled

\* C20: after NewServer(opts) the chain is the one given by the last
\* WithMiddlewares of opts (the defaults when there is none), preceded by the
\* later WithPreMiddleware arguments, last one first, and followed by the
\* later WithPostMiddleware arguments in order; requests pass through it
\* front to back; nothing of an earlier NewServer call on the Config remains.
LastWith(opts) ==
  LET W == {i \in DOMAIN opts : opts[i].op = "with"}
  IN IF W = {} THEN 0 ELSE CHOOSE i \in W : \A j \in W : j <= i

RECURSIVE PresDown(_, _, _)
PresDown(opts, i, lo) ==
  IF i <= lo THEN <<>>
  ELSE (IF opts[i].op = "pre" THEN opts[i].m ELSE <<>>)
         \o PresDown(opts, i - 1, lo)

RECURSIVE PostsUp(_, _)
PostsUp(opts, i) ==
  IF i > Len(opts) THEN <<>>
  ELSE (IF opts[i].op = "post" THEN opts[i].m ELSE <<>>)
         \o PostsUp(opts, i + 1)

Expected(opts) ==
  LET w == LastWith(opts)
      base == IF w = 0 THEN <<"RequestID", "RealIP", "RequestLogger">>
              ELSE opts[w].m
  IN PresDown(opts, Len(opts), w) \o base \o PostsUp(opts, w + 1)

C20_MiddlewareOrder ==
  mw.calls > 0 =>
    /\ mw.cfg = Expected(mw.opts)
    /\ mw.chain = Expected(mw.opts)
    /\ mw.opts = FullExample =>
         mw.chain = <<"m1", "m2", "m3", "m4", "m5", "m6">>

C20_Witness ==
  /\ mw.calls = 2 /\ mw.opts = FullExample
  /\ mw.chain = <<"m1", "m2", "m3", "m4", "m5", "m6">>

\* ---------------------------------------------------------------- C21
\* Start, once it has been called: its select and its deferred function.
StartRun(t) ==
  \/ StartSelectSignal(t)
  \/ StartCancel(t)
  \/ StartSelectCtx(t)
  \/ StartClose(t)

\* Spec with the goroutine of Start scheduled once Start has been called,
\* and every c.Stop() returning; whether and when Start is called is left
\* to the program.
RunFairSpec == Spec /\ WF_vars(StartRun(Main) \/ Cleanup(Main))

\* Start has been called and has not returned, or has returned.
InRun == pc[Main] = "start_wait" \/ PastSelect

\* C21 as stated: whenever the context is cancelled, also by a Stop made
\* while Start is not executing, every registered component gets Stop()
\* called and components becomes empty.
C21_CancelTearsDown ==
  Cancelled ~> (components = <<>> /\ stopLog = regLog)

\* C21 amended: whenever the context is cancelled and Start is executing
\* (cancelled by the signal case, by a Stop during Start, or by a Stop made
\* before Start was called), every registered component gets Stop() called
\* and components becomes empty; until Start is called a Stop tears nothing
\* down.
C21_CancelTearsDownInRun ==
  /\ (Cancelled /\ InRun) ~>
        (components = <<>> /\ stopLog = regLog /\ stopRets = Len(regLog))
  /\ [](pc[Main] \in {"reg", "reg_append"} => stopLog = <<>>)

C21_Witness ==
  /\ RunReturned /\ wokenBy[Main] = "ctx"
  /\ ~stopNoSig /\ ~sigDelivered
  /\ Len(regLog) >= 1 /\ stopLog = regLog /\ components = <<>>

\* ---------------------------------------------------------------- C22
\* C22: closingCh is closed only after the cleanup pass: whenever it is
\* closed, Stop() has been called and has returned for every component that
\* was registered when Start left its select, whether or not these calls
\* returned an error, and components is empty.
C22_ClosedAfterCleanup ==
  closed =>
    /\ stopLog = regLog
    /\ stopRets = Len(regLog)
    /\ components = <<>>
    /\ pc[Main] = "start_done" /\ passes = 1

C22_Witness ==
  /\ closed /\ components = <<>>
  /\ Len(regLog) = 2 /\ stopLog = regLog /\ stopRets = 2
  /\ stopErrAt = {1, 2}

\* ---------------------------------------------------------------- C23
\* a c.Stop() call has been made and has not returned
StopPending == stopRets < Len(stopLog)

\* C23: the c.Stop() calls of a cleanup pass do not overlap: at most one is
\* in progress, the next one is called only when the one before has
\* returned (with or without an error), and as long as a call does not
\* return no further Stop() is called, components is not cleared and
\* closingCh is not closed.
C23_StopsSequential ==
  /\ [](Len(stopLog) - stopRets \in {0, 1})
  /\ [](StopPending => (~closed /\ pc[Main] = "cl_stopping"))
  /\ [][Len(stopLog') > Len(stopLog) => ~StopPending]_vars
  /\ [][(StopPending /\ stopRets' = stopRets) =>
          /\ stopLog' = stopLog
          /\ components' = components
          /\ closed' = closed
          /\ pc'[Main] = pc[Main]]_vars

C23_Witness ==
  /\ pc[Main] = "cl_stopping" /\ clRet[Main] = "start_close"
  /\ Len(stopLog) = 2 /\ stopRets = 1 /\ 1 \in stopErrAt
  /\ Len(clSnap[Main]) = 2 /\ ~closed

\* ---------------------------------------------------------------- C24
\* t's Stop returns on the timer in this step
TimerStep(t) ==
  pc[t] = "stop_wait" /\ pc'[t] = "idle" /\ stopBranch'[t] = "timeout"

\* C24: once Start is executing and the context is cancelled or a signal
\* has been put into shutdownCh, Start returns, given that every c.Stop()
\* it calls returns.  Start has no timer of its own: a Stop that returns on
\* its timer leaves the goroutine of Start where it is, and Start does not
\* return while a c.Stop() it has called is pending.
C24_StartReturns ==
  /\ (InRun /\ (Cancelled \/ sigDelivered)) ~> RunReturned
  /\ [][(\E t \in Stoppers : TimerStep(t)) =>
          (pc'[Main] = pc[Main] /\ closed' = closed)]_vars
  /\ [](RunReturned => stopRets = Len(stopLog))

C24_Witness ==
  /\ RunReturned /\ wokenBy[Main] = "signal"
  /\ \E e \in earlyRet : e[2] > 0 /\ pc[e[1]] = "idle"
  /\ Len(regLog) >= 1 /\ stopRets = Len(regLog)

\* ---------------------------------------------------------------- C25
\* An App made by New(): Register calls, then Start, with goroutines
\* calling Stop and signals arriving.
AppStructSpec == Init /\ [][NextSa]_vars

\* C25: when a.Start() has returned after a signal made it leave its
\* select, a.Context() is done and has a cause, as it is after a.Stop().
C25_ContextCancelledAfterSignal ==
  (sapp.pc = "done" /\ sapp.wokenBy = "signal") =>
    (SaContextDone /\ SaContextCause # "none")

\* ---------------------------------------------------------------- C26
\* A program that makes up to MaxReg + 1 Register calls and then calls
\* Start; signals arrive and one goroutine calls Stop.
OneStopper == CHOOSE t \in Stoppers : TRUE

StartupInit ==
  /\ AppInit /\ srv = SrvInit("chix") /\ mw = MwInit /\ sapp = SaInit
  /\ regMax = MaxReg + 1 /\ sh = ShInit("wait", <<>>)

NextStartup ==
  \/ Register(Main)
  \/ Start(Main)
  \/ Cleanup(Main)
  \/ Stop(OneStopper)
  \/ Signal

StartupSpec == StartupInit /\ [][NextStartup]_vars

\* C26: when Register has panicked because c.Start() failed, components is
\* empty, c was not appended and no Stop() was called for it, and the panic
\* came after the loop had called Stop() on every component registered
\* before and every such call had returned, with or without an error.
C26_AbortAfterRollback ==
  (StartFailedExit(Main) /\ fault # NoFault) =>
    /\ components = <<>>
    /\ Len(startLog) = Len(regLog) + 1
    /\ regLog = SubSeq(startLog, 1, Len(startLog) - 1)
    /\ startFails = {Len(startLog)}
    /\ stopLog = regLog
    /\ stopRets = Len(regLog)
    /\ passes = 1
    /\ fault = StartErr(regC[Main])

C26_Witness ==
  /\ StartFailedExit(Main) /\ fault # NoFault
  /\ Len(regLog) = 2 /\ stopLog = regLog /\ stopRets = 2
  /\ 1 \in stopErrAt
  /\ regC[Main] = regLog[1] /\ components = <<>>

\* ---------------------------------------------------------------- C27
\* C27: Register does not deduplicate.  Between Register calls components
\* holds one entry per c.Start() call made, duplicates included, in call
\* order; a finished cleanup pass has called Stop() once per entry, the
\* i-th call on the component of the i-th registration.
C27_NoDedup ==
  /\ (pc[Main] = "reg" /\ Alive) =>
        /\ components = startLog
        /\ \A c \in Comps : Occ(components, c) = Occ(startLog, c)
  /\ PassFinished(Main) =>
        /\ Len(stopLog) = Len(regLog)
        /\ \A i \in DOMAIN regLog : stopLog[i] = regLog[i]
        /\ \A c \in Comps : Occ(stopLog, c) = Occ(regLog, c)

C27_Witness ==
  /\ RunReturned
  /\ \E c \in Comps :
       /\ Occ(startLog, c) = MaxReg + 1
       /\ Occ(regLog, c) = MaxReg + 1
       /\ Occ(stopLog, c) = MaxReg + 1

\* ---------------------------------------------------------------- C28
\* C28 as stated: shutdownCh holds at most one signal; a signal that is in
\* shutdownCh when Start gets to its select makes Start leave the select on
\* the signal case; a signal is only ever read by Start's select, one per
\* call.
C28_BufferedSignalWins ==
  /\ [](shutdownCh <= 1)
  /\ (pc[Main] = "start_wait" /\ shutdownCh > 0) ~>
        (wokenBy[Main] = "signal")
  /\ [][shutdownCh' < shutdownCh =>
          /\ pc[Main] = "start_wait" /\ pc'[Main] = "start_cancel"
          /\ shutdownCh' = shutdownCh - 1]_vars

\* C28 amended: shutdownCh holds at most one signal; a signal that is in
\* shutdownCh when Start gets to its select stays there until Start reads
\* it and makes Start leave the select; Start leaves on the signal case
\* when the context is not cancelled at that moment, and on either case
\* when it is (the signal may then stay unread for good); a signal is only
\* ever read by Start's select, one per call.
C28_BufferedSignalWakes ==
  /\ [](shutdownCh <= 1)
  /\ (pc[Main] = "start_wait" /\ shutdownCh > 0) ~> PastSelect
  /\ [][(pc[Main] = "start_wait" /\ pc'[Main] # "start_wait"
           /\ ~Cancelled) =>
          (wokenBy'[Main] = "signal" /\ shutdownCh' = shutdownCh - 1)]_vars
  /\ [][shutdownCh' < shutdownCh =>
          /\ pc[Main] = "start_wait" /\ pc'[Main] = "start_cancel"
          /\ shutdownCh' = shutdownCh - 1]_vars

C28_Witness ==
  /\ RunReturned /\ wokenBy[Main] = "signal"
  /\ sigSent = 2 /\ shutdownCh = 1
  /\ cause = "app closing triggered by system call"

\* ---------------------------------------------------------------- C29
\* A second goroutine calls Register at any time, also while main is in
\* Start's cleanup; components is not guarded by a lock.  One goroutine
\* calls Stop.
NextConcReg ==
  \/ Register(Main)
  \/ Start(Main)
  \/ Register(Registrar)
  \/ \E t \in {Main, Registrar} : Cleanup(t)
  \/ Stop(OneStopper)
  \/ Signal

ConcRegSpec == Init /\ [][NextConcReg]_vars

\* C29: a component appended by Register leaves components only after a
\* Stop() call was made for it, however Register and cleanup interleave.
C29_NoneDroppedUnstopped ==
  \A c \in Comps : Occ(regLog, c) - Occ(components, c) <= Occ(stopLog, c)

\* ---------------------------------------------------------------- C30
\* C30: Stop calls no c.Stop(), does not touch components and does not
\* close closingCh: a step of a goroutine in Stop changes at most the cause
\* (from none to "app stopped") and that goroutine's position.  c.Stop() is
\* called only from the cleanup loop of the goroutine of Register and
\* Start, entered from Start's deferred function or from exit.
C30_StopOnlyCancelsAndWaits ==
  /\ [](\A t \in Stoppers : pc[t] \in {"idle", "stop_select", "stop_wait"})
  /\ [][\A t \in Stoppers : pc'[t] # pc[t] =>
          /\ stopLog' = stopLog /\ stopRets' = stopRets
          /\ components' = components
          /\ closed' = closed
          /\ shutdownCh' = shutdownCh
          /\ fault' = fault
          /\ pc'[Main] = pc[Main]
          /\ cause' # cause =>
               (pc[t] = "idle" /\ cause = "none" /\ cause' = "app stopped")
       ]_vars
  /\ [][stopLog' # stopLog =>
          /\ pc[Main] = "cl_loop" /\ pc'[Main] = "cl_stopping"
          /\ clRet[Main] \in {"start_close", "exit_panic"}]_vars

C30_Witness ==
  /\ pc[Main] = "reg" /\ Len(components) = 2
  /\ \A t \in Stoppers : pc[t] = "idle" /\ stopBranch[t] = "timeout"
  /\ cause = "app stopped"
  /\ stopLog = <<>> /\ ~closed /\ passes = 0

\* ---------------------------------------------------------------- C31
\* C31: when Start has returned the context is cancelled and its cause is
\* "app stopped" or "app closing triggered by system call"; at all times
\* the cause is set exactly when Done() is closed.
C31_CauseIffCancelled ==
  /\ RunReturned =>
       /\ ctxDone
       /\ cause \in {"app stopped", "app closing triggered by system call"}
  /\ ctxDone <=> cause # "none"

C31_Witness ==
  /\ RunReturned /\ ctxDone
  /\ wokenBy[Main] = "signal"
  /\ cause = "app closing triggered by system call"
  /\ \A t \in Stoppers : stopCalls[t] = 1

\* ---------------------------------------------------------------- C32
\* Start has not been called yet (main is still between Register calls).
BeforeRun == pc[Main] \in {"reg", "reg_append"}

\* Start is in its select, the context was cancelled before Start was
\* called (no Stop cancelled during the select) and no signal has come.
EnteredCancelled ==
  pc[Main] = "start_wait" /\ ctxDone /\ ~stopNoSig /\ ~sigDelivered

\* C32: a Stop called before Start, with Start not called while it waits,
\* returns on the timer; until Start is called no c.Stop() is called and
\* components keeps every registered component.  A Start called afterwards
\* finds the context cancelled: it needs no signal, leaves its select, runs
\* the cleanup pass, closes closingCh and returns, the cause still being
\* "app stopped".
C32_StopBeforeStart ==
  /\ [][\A t \in Stoppers :
          (BeforeRun /\ pc[t] \in {"stop_select", "stop_wait"}
             /\ pc'[t] = "idle") => stopBranch'[t] = "timeout"]_vars
  /\ []((BeforeRun /\ ctxDone) =>
          /\ cause = "app stopped"
          /\ stopLog = <<>> /\ passes = 0
          /\ components = regLog
          /\ ~closed)
  /\ EnteredCancelled ~>
       (/\ RunReturned /\ closed
        /\ stopLog = regLog /\ stopRets = Len(regLog)
        /\ components = <<>>
        /\ cause = "app stopped")
  /\ [][(EnteredCancelled /\ pc'[Main] # pc[Main]) =>
          (wokenBy'[Main] = "ctx" /\ shutdownCh = 0)]_vars

C32_Witness ==
  /\ RunReturned /\ closed /\ wokenBy[Main] = "ctx"
  /\ sigSent = 0 /\ ~stopNoSig
  /\ \A t \in Stoppers : pc[t] = "idle" /\ stopBranch[t] = "timeout"
  /\ earlyRet = {}
  /\ Len(regLog) = 2 /\ stopLog = regLog
  /\ cause = "app stopped"

\* ---------------------------------------------------------------- C33
\* the goroutine of Register is inside exit: cleanup or the panic
InExit(t) ==
  \/ pc[t] \in {"cl_enter", "cl_loop", "cl_stopping"} /\ clRet[t] = "exit_panic"
  \/ pc[t] \in {"exit_panic", "panicked"}

\* C33: exit, entered for a nil component or a failed c.Start(), neither
\* cancels the context nor closes closingCh: each step into or inside it
\* leaves Done(), the cause, closingCh and shutdownCh as they are and
\* changes only components (cleared) and the Stop() calls made; a goroutine
\* waiting on Context().Done() is not released by it.
C33_ExitLeavesContext ==
  /\ [][(InExit(Main)' /\ pc'[Main] # pc[Main]) =>
          /\ ctxDone' = ctxDone /\ cause' = cause
          /\ closed' = closed
          /\ shutdownCh' = shutdownCh /\ notified' = notified
          /\ \A o \in Observers :
               obs[o] = "waiting" => obs'[o] = "waiting"]_vars
  /\ [](fault # NoFault =>
          /\ ~closed /\ components = <<>>
          /\ (\A t \in Stoppers : stopCalls[t] = 0) =>
               (~ctxDone /\ cause = "none"
                  /\ \A o \in Observers : obs[o] # "released"))

C33_Witness ==
  /\ fault = "given component is nil"
  /\ ~ctxDone /\ cause = "none" /\ ~closed
  /\ Len(regLog) >= 1 /\ stopLog = regLog /\ components = <<>>
  /\ \E o \in Observers : obs[o] = "waiting"

\* ---------------------------------------------------------------- C34
\* C34: httpx.Server: however Close calls interleave with Start, closeCh is
\* closed at most once and never before it was made, so that no Close call
\* panics, and the Close calls together call srv.Close() on the http.Server
\* at most once.
C34_CloseNeverPanics ==
  srv.kind = "httpx" =>
    /\ srv.panics = {}
    /\ srv.once # "panicked"
    /\ srv.closeCh = "closed" => srv.deferCh = "ch"

\* ---------------------------------------------------------------- C35
\* One call of Wait, Chan or Context with any overwrite list; the goroutine
\* blocked in Wait, the client receiving from Chan's channel and
\* NotifyContext's goroutine are scheduled.
ShutdownInit ==
  /\ AppInit /\ srv = SrvInit("chix") /\ mw = MwInit /\ sapp = SaInit
  /\ regMax = MaxReg
  /\ \E k \in Helpers, ow \in Overwrites : sh = ShInit(k, ow)

ShutdownSpec ==
  /\ ShutdownInit /\ [][NextSh]_vars
  /\ WF_vars(ShWaitRecv) /\ WF_vars(ShChanRecv) /\ WF_vars(ShWatchSignal)

\* the signals the call listens to, as C35 gives them
Effective ==
  IF Len(sh.overwrite) >= 1 THEN {sh.overwrite[i] : i \in DOMAIN sh.overwrite}
  ELSE {"SIGINT", "SIGTERM"}

\* Wait has returned, Chan's channel has delivered, the context is done
Unblocked ==
  \/ sh.kind = "wait" /\ sh.pc = "returned"
  \/ sh.kind = "chan" /\ sh.got # <<>>
  \/ sh.kind = "context" /\ sh.ctx = "done"

\* C35: the helpers listen to the overwrite list when it is not empty and
\* to SIGINT and SIGTERM otherwise.  Wait returns, Chan's channel delivers
\* and Context's context is cancelled by a signal only when a signal of
\* that set has been received, and the channel delivers only such signals;
\* once one has been relayed each of them unblocks, unless another signal,
\* one the call does not listen to, ends the program first.
C35_HelpersFollowSignalSet ==
  /\ [](sh.pc # "init" => sh.set = Effective)
  /\ []((sh.kind = "wait" /\ sh.pc = "returned") =>
           sh.delivered \cap Effective # {})
  /\ [](\A i \in DOMAIN sh.got :
           sh.got[i] \in Effective /\ sh.got[i] \in sh.delivered)
  /\ []((sh.kind = "context" /\ sh.by = "signal") =>
           sh.delivered \cap Effective # {})
  /\ [](sh.caught \subseteq Effective)
  /\ (sh.caught # {}) ~> (Unblocked \/ sh.dead)

C35_Witness ==
  /\ sh.kind = "context" /\ sh.ctx = "done" /\ sh.by = "signal"
  /\ sh.overwrite = <<"SIGHUP">>
  /\ sh.delivered = {"SIGCHLD", "SIGHUP"}
  /\ sh.caught = {"SIGHUP"} /\ ~sh.dead

====
